---- MODULE Spec2Model ----
(***************************************************************************)
(* Model of UrlHashBinding (src/neuroglancer/ui/url_hash_binding.ts): the  *)
(* binding between a Trackable state tree and the URL fragment.            *)
(*                                                                         *)
(* Strings are sequences of symbols.  A symbol is one character, except    *)
(* that the page address "http://host/" is the single symbol "U" and the   *)
(* query parameter names json_url and redirect_fragment are single         *)
(* symbols; none of them contains a character the code's regular           *)
(* expressions look for.                                                   *)
(***************************************************************************)
EXTENDS Integers, Sequences, FiniteSets, TLC

\* ------------------------------------------------------------------ bounds
MaxGen == 3
MaxFetches == 1

\* ---------------------------------------------------------- string helpers
\* the value undefined of a string field, and a thrown URIError
Undefined == <<"undefined">>
URIError == <<"URIError">>

StartsWith(s, p) ==
    /\ Len(s) >= Len(p)
    /\ SubSeq(s, 1, Len(p)) = p

\* s.slice(n)
Slice(s, n) == SubSeq(s, n + 1, Len(s))

\* index of the first occurrence of c in s, 0 when there is none
FirstIndex(s, c) ==
    IF \E i \in 1..Len(s) : s[i] = c
    THEN CHOOSE i \in 1..Len(s) : s[i] = c /\ \A j \in 1..(i - 1) : s[j] # c
    ELSE 0

\* index of the last occurrence of c in s, 0 when there is none
LastIndex(s, c) ==
    IF \E i \in 1..Len(s) : s[i] = c
    THEN CHOOSE i \in 1..Len(s) : s[i] = c /\ \A j \in (i + 1)..Len(s) : s[j] # c
    ELSE 0

\* s.split(c)
RECURSIVE Split(_, _)
Split(s, c) ==
    LET i == FirstIndex(s, c)
    IN IF i = 0 THEN <<s>>
       ELSE <<SubSeq(s, 1, i - 1)>> \o Split(Slice(s, i), c)

\* The escapes of the characters of the model's alphabet that a URI escapes.
EscapeOf(c) ==
    CASE c = "{" -> <<"%", "7", "B">>
      [] c = "}" -> <<"%", "7", "D">>
      [] c = "\"" -> <<"%", "2", "2">>
      [] c = "%" -> <<"%", "2", "5">>
      [] c = " " -> <<"%", "2", "0">>
      [] c = "," -> <<"%", "2", "C">>
      [] c = "!" -> <<"%", "2", "1">>
      [] c = "'" -> <<"%", "2", "7">>
      [] OTHER -> <<c>>

\* the character an escape %xy stands for, "" when it is none of the alphabet
Unescape(x, y) ==
    CASE x = "7" /\ y = "B" -> "{"
      [] x = "7" /\ y = "D" -> "}"
      [] x = "2" /\ y = "2" -> "\""
      [] x = "2" /\ y = "5" -> "%"
      [] x = "2" /\ y = "0" -> " "
      [] x = "2" /\ y = "C" -> ","
      [] x = "2" /\ y = "1" -> "!"
      [] x = "2" /\ y = "7" -> "'"
      [] OTHER -> ""

\* encodeURI leaves , ! ' alone; the replace of encodeFragment escapes them.
EncodeURIKeeps == {",", "!", "'"}

RECURSIVE encodeURI(_)
encodeURI(s) ==
    IF s = <<>> THEN <<>>
    ELSE (IF Head(s) \in EncodeURIKeeps THEN <<Head(s)>> ELSE EscapeOf(Head(s)))
         \o encodeURI(Tail(s))

RECURSIVE ReplaceSpecials(_)
ReplaceSpecials(s) ==
    IF s = <<>> THEN <<>>
    ELSE (IF Head(s) \in EncodeURIKeeps THEN EscapeOf(Head(s)) ELSE <<Head(s)>>)
         \o ReplaceSpecials(Tail(s))

encodeFragment(fragment) == ReplaceSpecials(encodeURI(fragment))

\* decodeURIComponent: URIError on a % that does not start a valid escape
RECURSIVE decodeURIComponent(_)
decodeURIComponent(s) ==
    IF s = URIError THEN URIError
    ELSE IF s = <<>> THEN <<>>
    ELSE IF Head(s) # "%"
         THEN LET r == decodeURIComponent(Tail(s))
              IN IF r = URIError THEN URIError ELSE <<Head(s)>> \o r
    ELSE IF Len(s) < 3 \/ Unescape(s[2], s[3]) = "" THEN URIError
    ELSE LET r == decodeURIComponent(Slice(s, 3))
         IN IF r = URIError THEN URIError ELSE <<Unescape(s[2], s[3])>> \o r

\* ------------------------------------------------------------ URL handling
\* the percent-decoding of URLSearchParams: + is a space, a bad % stays
RECURSIVE FormDecode(_)
FormDecode(s) ==
    IF s = <<>> THEN <<>>
    ELSE IF Head(s) = "+" THEN <<" ">> \o FormDecode(Tail(s))
    ELSE IF Head(s) = "%" /\ Len(s) >= 3 /\ Unescape(s[2], s[3]) # ""
         THEN <<Unescape(s[2], s[3])>> \o FormDecode(Slice(s, 3))
    ELSE <<Head(s)>> \o FormDecode(Tail(s))

\* new URLSearchParams(q): the sequence of <<name, value>> pairs of q
ParamOf(p) ==
    LET j == FirstIndex(p, "=")
    IN IF j = 0 THEN <<FormDecode(p), <<>>>>
       ELSE <<FormDecode(SubSeq(p, 1, j - 1)), FormDecode(Slice(p, j))>>

URLSearchParams(q) ==
    LET parts == Split(q, "&")
        kept == SelectSeq(parts, LAMBDA p : p # <<>>)
    IN [i \in 1..Len(kept) |-> ParamOf(kept[i])]

ParamsHas(params, name) == \E i \in 1..Len(params) : params[i][1] = name

ParamsGet(params, name) ==
    LET i == CHOOSE k \in 1..Len(params) :
                 /\ params[k][1] = name
                 /\ \A j \in 1..(k - 1) : params[j][1] # name
    IN params[i][2]

\* location.href.replace(/^[^#]+/, '')
FragmentOf(href) ==
    LET i == FirstIndex(href, "#")
    IN IF i = 0 THEN <<>> ELSE Slice(href, i - 1)

\* the address without its fragment
WithoutFragment(href) ==
    LET i == FirstIndex(href, "#")
    IN IF i = 0 THEN href ELSE SubSeq(href, 1, i - 1)

\* history.replaceState(null, '', '#...'): only the fragment is replaced
ReplaceFragment(href, frag) == WithoutFragment(href) \o frag

\* location.href.replace(/^.*\?/, '')
JustQuery(href) == Slice(href, LastIndex(href, "?"))

\* end of the longest run of symbols outside stop that starts at position i
RECURSIVE RunEnd(_, _, _)
RunEnd(s, i, stop) ==
    IF i > Len(s) \/ s[i] \in stop THEN i - 1 ELSE RunEnd(s, i + 1, stop)

\* positions where [?&]parameter= starts
ParamStarts(url, parameter) ==
    {i \in 1..(Len(url) - 2) :
        /\ url[i] \in {"?", "&"}
        /\ url[i + 1] = parameter
        /\ url[i + 2] = "="}

Min(S) == CHOOSE x \in S : \A y \in S : x <= y

\* url.replace(/[?&]parameter=[^&#]*(#.*)?$/, '$1')
RemoveTrailingParam(url, parameter) ==
    LET hits == {i \in ParamStarts(url, parameter) :
                    LET e == RunEnd(url, i + 3, {"&", "#"})
                    IN e = Len(url) \/ url[e + 1] = "#"}
    IN IF hits = {} THEN url
       ELSE LET i == Min(hits)
                e == RunEnd(url, i + 3, {"&", "#"})
            IN SubSeq(url, 1, i - 1) \o Slice(url, e)

\* url.replace(/([?&])parameter=[^&]*&/, '$1')
RemoveLeadingParam(url, parameter) ==
    LET hits == {i \in ParamStarts(url, parameter) :
                    RunEnd(url, i + 3, {"&"}) < Len(url)}
    IN IF hits = {} THEN url
       ELSE LET i == Min(hits)
                e == RunEnd(url, i + 3, {"&"})
            IN SubSeq(url, 1, i) \o Slice(url, e + 1)

removeParameterFromUrl(url, parameter) ==
    RemoveLeadingParam(RemoveTrailingParam(url, parameter), parameter)

\* --------------------------------------------------------- the state tree
\* The root Trackable is a compound of the children Keys; a child holds one
\* of Vals or its default, and toJSON leaves the defaults out.
Keys == {"a", "b"}
KeyOrder == <<"a", "b">>
Vals == {"1"}
Default == "default"
Objects == [Keys -> Vals \cup {Default}]
EmptyObject == [k \in Keys |-> Default]

\* root.reset()
Reset(value) == EmptyObject

\* root.restoreState(obj): the children that obj names are set, the others kept
RestoreState(value, obj) ==
    [k \in Keys |-> IF obj[k] # Default THEN obj[k] ELSE value[k]]

RECURSIVE Join(_, _)
Join(items, sep) ==
    IF items = <<>> THEN <<>>
    ELSE IF Len(items) = 1 THEN items[1]
    ELSE items[1] \o sep \o Join(Tail(items), sep)

\* JSON.stringify(cacheState.value)
JSONStringify(value) ==
    LET present == SelectSeq(KeyOrder, LAMBDA k : value[k] # Default)
        members == [i \in 1..Len(present) |->
                       <<"\"", present[i], "\"", ":", value[present[i]]>>]
    IN <<"{">> \o Join(members, <<",">>) \o <<"}">>

RECURSIVE TrimLeft(_)
TrimLeft(s) == IF s # <<>> /\ Head(s) = " " THEN TrimLeft(Tail(s)) ELSE s

RECURSIVE TrimRight(_)
TrimRight(s) ==
    IF s # <<>> /\ s[Len(s)] = " " THEN TrimRight(SubSeq(s, 1, Len(s) - 1)) ELSE s

IsMember(item) ==
    /\ Len(item) = 5
    /\ item[1] = "\"" /\ item[3] = "\"" /\ item[4] = ":"
    /\ item[2] \in Keys
    /\ item[5] \in Vals

\* JSON.parse on the texts of the model: an object of members "k":v, a bare
\* number, or a syntax error
JSONParse(s) ==
    LET t == TrimRight(TrimLeft(s))
    IN IF Len(t) = 1 /\ t[1] \in Vals THEN [kind |-> "value", obj |-> EmptyObject]
       ELSE IF Len(t) >= 2 /\ t[1] = "{" /\ t[Len(t)] = "}"
       THEN LET inner == SubSeq(t, 2, Len(t) - 1)
                items == IF inner = <<>> THEN <<>> ELSE Split(inner, ",")
            IN IF \A i \in 1..Len(items) : IsMember(items[i])
               THEN [kind |-> "object",
                     obj |-> [k \in Keys |->
                                IF \E i \in 1..Len(items) : items[i][2] = k
                                THEN LET i == CHOOSE n \in 1..Len(items) :
                                                 /\ items[n][2] = k
                                                 /\ \A m \in (n + 1)..Len(items) :
                                                        items[m][2] # k
                                     IN items[i][5]
                                ELSE Default]]
               ELSE [kind |-> "SyntaxError", obj |-> EmptyObject]
       ELSE [kind |-> "SyntaxError", obj |-> EmptyObject]

\* urlSafeToJSON: ' stands for " and _ for ,
urlSafeToJSON(s) ==
    [i \in 1..Len(s) |-> IF s[i] = "'" THEN "\"" ELSE IF s[i] = "_" THEN "," ELSE s[i]]

urlSafeParse(s) == JSONParse(urlSafeToJSON(s))

\* ------------------------------------------------------------ the binding
NoGen == 0 - 1
NoError == "undefined"

\* setUrlHash with prevStateGeneration assigned only where the fragment is
\* rewritten
setUrlHashStaleGeneration(h, value, generation, pss, psg) ==
    LET h1 == removeParameterFromUrl(h, "json_url")
        stateString == encodeFragment(JSONStringify(value))
    IN IF generation # psg /\ stateString # pss
       THEN [href |-> IF decodeURIComponent(stateString) = <<"{", "}">>
                      THEN ReplaceFragment(h1, <<"#">>)
                      ELSE ReplaceFragment(h1, <<"#", "!">> \o stateString),
             pss |-> stateString, psg |-> generation, wrote |-> TRUE]
       ELSE [href |-> h1, pss |-> pss, psg |-> psg, wrote |-> FALSE]

\* setUrlHash rewriting the fragment whenever the generation has changed
setUrlHashAlwaysWriting(h, value, generation, pss, psg) ==
    LET h1 == removeParameterFromUrl(h, "json_url")
        stateString == encodeFragment(JSONStringify(value))
    IN IF generation # psg
       THEN [href |-> IF decodeURIComponent(stateString) = <<"{", "}">>
                      THEN ReplaceFragment(h1, <<"#">>)
                      ELSE ReplaceFragment(h1, <<"#", "!">> \o stateString),
             pss |-> stateString, psg |-> generation, wrote |-> TRUE]
       ELSE [href |-> h1, pss |-> pss, psg |-> psg, wrote |-> FALSE]

\* setUrlHash on the address h, the tree's cached value and generation and
\* the two cursor fields: the new address and cursor fields, and whether the
\* fragment was rewritten
setUrlHash(h, value, generation, pss, psg) ==
    LET h1 == removeParameterFromUrl(h, "json_url")
        stateString == encodeFragment(JSONStringify(value))
    IN IF generation # psg
       THEN IF stateString # pss
            THEN [href |-> IF decodeURIComponent(stateString) = <<"{", "}">>
                           THEN ReplaceFragment(h1, <<"#">>)
                           ELSE ReplaceFragment(h1, <<"#", "!">> \o stateString),
                  pss |-> stateString, psg |-> generation, wrote |-> TRUE]
            ELSE [href |-> h1, pss |-> pss, psg |-> generation, wrote |-> FALSE]
       ELSE [href |-> h1, pss |-> pss, psg |-> psg, wrote |-> FALSE]

checkRedirectFragment(h) ==
    LET params == URLSearchParams(JustQuery(h))
    IN IF ~ParamsHas(params, <<"redirect_fragment">>)
       THEN <<FALSE, <<>>>>
       ELSE <<TRUE, <<"#">> \o ParamsGet(params, <<"redirect_fragment">>)>>

\* the fallback to #!{} for the fragments '' and '#' only
EffectiveFragmentBangKept(h) ==
    LET r == checkRedirectFragment(h)
        f == FragmentOf(h)
    IN IF ~r[1]
       THEN IF f \in {<<>>, <<"#">>}
            THEN <<"#", "!", "{", "}">>
            ELSE f
       ELSE r[2]

\* the string s that updateFromUrlHash classifies
EffectiveFragment(h) ==
    LET r == checkRedirectFragment(h)
        f == FragmentOf(h)
    IN IF ~r[1]
       THEN IF f \in {<<>>, <<"#">>, <<"#", "!">>}
            THEN <<"#", "!", "{", "}">>
            ELSE f
       ELSE r[2]

LowerLetters == {"a", "b", "g", "s", "x"}
Digits == {"0", "1", "2", "3", "4", "5", "6", "7", "8", "9"}
\* [a-z\d+-.] : the range +-. holds + , - .
SchemeTail == LowerLetters \cup Digits \cup {"+", ",", "-", "."}

\* s.match(/^#!([a-z][a-z\d+-.]*):\/\//)
IsRemote(s) ==
    /\ StartsWith(s, <<"#", "!">>)
    /\ Len(s) >= 3
    /\ s[3] \in LowerLetters
    /\ LET e == RunEnd(s, 4, {c \in {s[i] : i \in 1..Len(s)} : c \notin SchemeTail})
       IN StartsWith(Slice(s, e), <<":", "/", "/">>)

\* a payload decoded once, redirect or not
DecodePayloadOnce(s, found) == decodeURIComponent(s)

\* the percent-decoding of a payload: twice after a redirect
DecodePayload(s, found) ==
    IF found THEN decodeURIComponent(decodeURIComponent(s)) ELSE decodeURIComponent(s)

\* The outcome of one branch of updateFromUrlHash: the branch taken, the error
\* thrown, the new parseError and prevStateString, the values the tree
\* takes one after the other, and whether a fetch is started.
Outcome(path, thrown, err, pss, steps, fetch) ==
    [path |-> path, thrown |-> thrown,
     error |-> IF thrown # NoError THEN thrown ELSE err,
     pss |-> pss, steps |-> steps, fetch |-> fetch]

\* the remote branch recording its payload as the standard branch does
RemoteBranchRecording(s, found, pss, err, value) ==
    Outcome("remote", NoError, NoError, Slice(s, 2), <<>>, TRUE)

RemoteBranch(s, found, pss, err, value) ==
    Outcome("remote", NoError, NoError, pss, <<>>, TRUE)

LegacyBranch(s, found, pss, err, value) ==
    LET d == DecodePayload(Slice(s, 3), found)
        state == urlSafeParse(d)
    IN IF d = URIError THEN Outcome("legacy", "URIError", err, pss, <<>>, FALSE)
       ELSE IF state.kind = "SyntaxError"
       THEN Outcome("legacy", "SyntaxError", err, pss, <<>>, FALSE)
       ELSE IF state.kind # "object"
       THEN Outcome("legacy", "NotObject", err, pss, <<>>, FALSE)
       ELSE Outcome("legacy", NoError, NoError, Undefined,
                    <<RestoreState(value, state.obj)>>, FALSE)

StandardBranch(s, found, pss, err, value) ==
    LET d == DecodePayload(Slice(s, 2), found)
        state == urlSafeParse(d)
    IN IF d = URIError THEN Outcome("standard", "URIError", err, pss, <<>>, FALSE)
       ELSE IF d = pss THEN Outcome("echo", NoError, err, pss, <<>>, FALSE)
       ELSE IF state.kind = "SyntaxError"
       THEN Outcome("standard", "SyntaxError", err, d, <<Reset(value)>>, FALSE)
       ELSE IF state.kind # "object"
       THEN Outcome("standard", "NotObject", err, d, <<Reset(value)>>, FALSE)
       ELSE Outcome("standard", NoError, NoError, d,
                    <<Reset(value), RestoreState(Reset(value), state.obj)>>, FALSE)

\* the malformed branch resetting the tree before it throws
MalformedBranchResetting(s, found, pss, err, value) ==
    Outcome("malformed", "Malformed", err, pss, <<Reset(value)>>, FALSE)

MalformedBranch(s, found, pss, err, value) ==
    Outcome("malformed", "Malformed", err, pss, <<>>, FALSE)

updateFromUrlHash(h, pss, err, value) ==
    LET found == checkRedirectFragment(h)[1]
        s == EffectiveFragment(h)
    IN IF IsRemote(s) THEN RemoteBranch(s, found, pss, err, value)
       ELSE IF StartsWith(s, <<"#", "!", "+">>) THEN LegacyBranch(s, found, pss, err, value)
       ELSE IF StartsWith(s, <<"#", "!">>) THEN StandardBranch(s, found, pss, err, value)
       ELSE MalformedBranch(s, found, pss, err, value)

\* a debounce that sets a new timer and leaves the pending one
debounceStacking(pending) == pending + 1

\* lodash debounce, trailing edge: a call clears the pending timer and sets
\* a new one; the argument is the number of pending timers
debounce(pending) == 1

\* a cancel that leaves the pending timer
cancelNothing(pending) == pending

\* throttledSetUrlHash.cancel()
cancel(pending) == 0

\* ------------------------------------------------------------- the inputs
Base == <<"U">>
A1 == [k \in Keys |-> IF k = "a" THEN "1" ELSE Default]
B1 == [k \in Keys |-> IF k = "b" THEN "1" ELSE Default]

\* the fragments the user navigates to
Fragments ==
    {
      \* #!{"a":1}
      <<"#", "!", "{", "\"", "a", "\"", ":", "1", "}">>,
      \* #!+{'b':1}
      <<"#", "!", "+", "{", "'", "b", "'", ":", "1", "}">>,
      \* #!+1
      <<"#", "!", "+", "1">>,
      \* #!gs://x
      <<"#", "!", "g", "s", ":", "/", "/", "x">>,
      \* #x
      <<"#", "x">>,
      \* #!1
      <<"#", "!", "1">> }

\* the addresses the page is loaded at
Hrefs ==
    {
      \* the page without a query and without a fragment
      <<"U">>,
      \* #!
      <<"U", "#", "!">>,
      \* #!{x
      <<"U", "#", "!", "{", "x">>,
      \* #!%
      <<"U", "#", "!", "%">>,
      \* #!<{} encoded twice>
      <<"U", "#", "!", "%", "2", "5", "7", "B", "%", "2", "5", "7", "D">>,
      \* ?json_url=x#!{"b":1}
      <<"U", "?", "json_url", "=", "x", "#", "!", "{", "\"", "b", "\"", ":",
        "1", "}">>,
      \* ?json_url=x&json_url=x
      <<"U", "?", "json_url", "=", "x", "&", "json_url", "=", "x">>,
      \* ?redirect_fragment=!<{"b":1} encoded three times>&s=1#x : the value
      \* of the parameter is !<{"b":1} encoded twice>
      <<"U", "?", "redirect_fragment", "=", "!",
        "%", "2", "5", "2", "5", "7", "B", "%", "2", "5", "2", "5", "2", "2",
        "b", "%", "2", "5", "2", "5", "2", "2", ":", "1",
        "%", "2", "5", "2", "5", "7", "D", "&", "s", "=", "1", "#", "x">>,
      \* ?redirect_fragment=!{}#x
      <<"U", "?", "redirect_fragment", "=", "!", "{", "}", "#", "x">>,
      \* ?redirect_fragment=x
      <<"U", "?", "redirect_fragment", "=", "x">> }

\* what a fetch of a remote state resolves to: an object, another JSON value,
\* or a failure of the request
FetchResults == {"object", "value", "failure"}
FetchedObject(r) == B1

\* the then-callback of the fetch resetting the tree before verifyObject
FetchThenResetting(result, value) ==
    IF result = "failure" THEN [steps |-> <<>>, thrown |-> "HttpError"]
    ELSE IF result = "value"
    THEN [steps |-> <<Reset(value)>>, thrown |-> "NotObject"]
    ELSE [steps |-> <<Reset(value), RestoreState(Reset(value), FetchedObject(result))>>,
          thrown |-> NoError]

\* The promise handed to StatusMessage.forPromise: the fetch, then
\* verifyObject, root.reset and root.restoreState on what it resolved to. The
\* values the tree takes, and what the promise is rejected with.
FetchThen(result, value) ==
    IF result = "failure" THEN [steps |-> <<>>, thrown |-> "HttpError"]
    ELSE IF result = "value" THEN [steps |-> <<>>, thrown |-> "NotObject"]
    ELSE [steps |-> <<Reset(value), RestoreState(Reset(value), FetchedObject(result))>>,
          thrown |-> NoError]

\* StatusMessage.forPromise: the message shown while the promise is pending
\* and the one shown once it has settled
InitialMessage == "Loading state"
SettledMessage(thrown) == IF thrown = NoError THEN "none" ELSE "Error loading state:"

\* ---------------------------------------------------------------- state
VARIABLES
    href,                \* window.location.href
    hashPending,         \* a hashchange event is queued
    rootValue,           \* the value of root
    rootGeneration,      \* root.changed.count
    prevStateString,
    prevStateGeneration,
    parseError,
    timers,              \* pending timers of throttledSetUrlHash
    fetches,             \* remote fetches in flight
    disposed,
    status,              \* the message of the latest StatusMessage.forPromise
    last,                \* history: the operation that ran last
    prevFrom,            \* history: what set prevStateString
    burst                \* history: notifications and cycles of the burst

vars == <<href, hashPending, rootValue, rootGeneration, prevStateString,
          prevStateGeneration, parseError, timers, fetches, disposed,
          status, last, prevFrom, burst>>

\* op: the operation; path: the branch an inbound cycle took, or what a fetch
\* resolved to; thrown: the error the operation threw; wrote: an outbound
\* cycle rewrote the fragment
Op(op, path, thrown, wrote) ==
    [op |-> op, path |-> path, thrown |-> thrown, wrote |-> wrote]

IsInbound(l) == l.op \in {"hashchange", "call"}
IsOutbound(l) == l.op \in {"setUrlHash", "callSetUrlHash"}

Init ==
    /\ href \in Hrefs
    /\ hashPending = FALSE
    /\ rootValue = EmptyObject
    /\ rootGeneration = 0
    /\ prevStateString = Undefined
    /\ prevStateGeneration = NoGen
    /\ parseError = NoError
    /\ timers = 0
    /\ fetches = 0
    /\ disposed = FALSE
    /\ status = "none"
    /\ last = Op("new", "-", NoError, FALSE)
    /\ prevFrom = "none"
    /\ burst = [n |-> 0, runs |-> 0, gen |-> 0]

\* the number of changes in the values the tree takes from value on
RECURSIVE Changes(_, _)
Changes(value, steps) ==
    IF steps = <<>> THEN 0
    ELSE (IF Head(steps) # value THEN 1 ELSE 0) + Changes(Head(steps), Tail(steps))

RECURSIVE Armed(_, _)
Armed(pending, n) == IF n = 0 THEN pending ELSE Armed(debounce(pending), n - 1)

\* The tree takes the values steps; each change raises the generation and
\* dispatches root.changed, to which throttledSetUrlHash listens until dispose.
TreeSteps(steps) ==
    \E n \in {Changes(rootValue, steps)} :
       /\ rootValue' = IF steps = <<>> THEN rootValue ELSE steps[Len(steps)]
       /\ rootGeneration' = rootGeneration + n
       /\ rootGeneration' <= MaxGen
       /\ IF disposed \/ n = 0
          THEN UNCHANGED <<timers, burst>>
          ELSE /\ timers' = Armed(timers, n)
               /\ burst' = [n |-> (IF timers = 0 THEN 0 ELSE burst.n) + n,
                            runs |-> IF timers = 0 THEN 0 ELSE burst.runs,
                            gen |-> rootGeneration']

\* the application changes a child of the tree
ChangeTree(k, v) ==
    /\ rootValue[k] # v
    /\ TreeSteps(<<[rootValue EXCEPT ![k] = v]>>)
    /\ last' = Op("change", "-", NoError, FALSE)
    /\ UNCHANGED <<href, hashPending, prevStateString, prevStateGeneration,
                   parseError, fetches, disposed, status, prevFrom>>

\* The user navigates to another fragment of the page; the browser queues
\* hashchange. (Another page or query loads the page anew.) Navigations
\* before the event is delivered count as one, and navigations after dispose
\* are left out: no code of the binding reads the address then.
Navigate(f) ==
    /\ ~hashPending
    /\ ~disposed
    /\ f # FragmentOf(href)
    /\ href' = ReplaceFragment(href, f)
    /\ hashPending' = TRUE
    /\ last' = Op("navigate", "-", NoError, FALSE)
    /\ UNCHANGED <<rootValue, rootGeneration, prevStateString, prevStateGeneration,
                   parseError, timers, fetches, disposed, status, prevFrom, burst>>

\* one outbound cycle, run by the timer or called by the application
OutboundCycle(trigger) ==
    \E r \in {setUrlHash(href, rootValue, rootGeneration,
                         prevStateString, prevStateGeneration)} :
       /\ href' = r.href
       /\ prevStateString' = r.pss
       /\ prevStateGeneration' = r.psg
       /\ prevFrom' = IF r.wrote THEN "write" ELSE prevFrom
       /\ last' = Op(trigger, "-", NoError, r.wrote)
       /\ UNCHANGED <<hashPending, rootValue, rootGeneration, parseError, fetches,
                      disposed, status>>

\* the timer of throttledSetUrlHash expires and setUrlHash runs
TimerFires ==
    /\ timers > 0
    /\ timers' = timers - 1
    /\ burst' = [burst EXCEPT !.runs = @ + 1]
    /\ OutboundCycle("setUrlHash")

\* the application calls setUrlHash() itself, between the debounced cycles
CallSetUrlHash ==
    /\ ~disposed
    /\ timers = 0
    /\ UNCHANGED <<timers, burst>>
    /\ OutboundCycle("callSetUrlHash")

\* one inbound cycle, run by the hashchange listener or called by the
\* application; prevFrom records what set prevStateString: an outbound
\* write, an inbound cycle that applied its payload, or one that failed
InboundCycle(trigger) ==
    \E r \in {updateFromUrlHash(href, prevStateString, parseError, rootValue)} :
       /\ r.fetch => fetches < MaxFetches
       /\ TreeSteps(r.steps)
       /\ prevStateString' = r.pss
       /\ parseError' = r.error
       /\ fetches' = IF r.fetch THEN fetches + 1 ELSE fetches
       /\ status' = IF r.fetch THEN InitialMessage ELSE status
       /\ prevFrom' = IF r.pss = prevStateString THEN prevFrom
                      ELSE IF r.pss = Undefined THEN "none"
                      ELSE IF r.thrown # NoError THEN "failed" ELSE "applied"
       /\ last' = Op(trigger, r.path, r.thrown, FALSE)
       /\ UNCHANGED <<href, prevStateGeneration, disposed>>

HashChange ==
    /\ hashPending
    /\ ~disposed
    /\ hashPending' = FALSE
    /\ InboundCycle("hashchange")

\* after dispose the event finds no listener
HashChangeUnheard ==
    /\ hashPending
    /\ disposed
    /\ hashPending' = FALSE
    /\ last' = Op("unheard", "-", NoError, FALSE)
    /\ UNCHANGED <<href, rootValue, rootGeneration, prevStateString,
                   prevStateGeneration, parseError, timers, fetches, disposed,
                   status, prevFrom, burst>>

CallUpdate ==
    /\ ~disposed
    /\ UNCHANGED hashPending
    /\ InboundCycle("call")

\* the promise of a remote fetch settles
FetchSettles(result) ==
    /\ fetches > 0
    /\ fetches' = fetches - 1
    /\ \E r \in {FetchThen(result, rootValue)} :
          /\ TreeSteps(r.steps)
          /\ status' = SettledMessage(r.thrown)
          /\ last' = Op("fetch", result, r.thrown, FALSE)
    /\ UNCHANGED <<href, hashPending, prevStateString, prevStateGeneration,
                   parseError, disposed, prevFrom>>

\* dispose(): the disposers registered by the constructor run
Dispose ==
    /\ ~disposed
    /\ disposed' = TRUE
    /\ timers' = cancel(timers)
    /\ last' = Op("dispose", "-", NoError, FALSE)
    /\ UNCHANGED <<href, hashPending, rootValue, rootGeneration, prevStateString,
                   prevStateGeneration, parseError, fetches, status, prevFrom, burst>>

Next ==
    \/ \E k \in Keys, v \in Vals \cup {Default} : ChangeTree(k, v)
    \/ \E f \in Fragments : Navigate(f)
    \/ TimerFires
    \/ CallSetUrlHash
    \/ HashChange
    \/ HashChangeUnheard
    \/ CallUpdate
    \/ \E result \in FetchResults : FetchSettles(result)
    \/ Dispose

Spec == Init /\ [][Next]_vars

\* ------------------------------------------- one trigger, then no input
\* The behaviours in which the environment acts once, on the binding as
\* constructed, and in which every rewrite of the fragment is followed by a
\* hashchange event. The generations are compared for equality only and a
\* debounced cycle leaves them equal: these behaviours count them from each
\* such cycle on, which keeps the states finite.
TriggerChange ==
    /\ last.op = "new"
    /\ \E k \in Keys, v \in Vals : ChangeTree(k, v)

TriggerNavigate ==
    /\ last.op = "new"
    /\ \E f \in Fragments : Navigate(f)

\* the timer expires, setUrlHash runs, and a rewrite queues hashchange
QuietTimerFires ==
    /\ timers > 0
    /\ timers' = timers - 1
    /\ \E r \in {setUrlHash(href, rootValue, rootGeneration,
                            prevStateString, prevStateGeneration)} :
          /\ href' = r.href
          /\ prevStateString' = r.pss
          /\ prevStateGeneration' = r.psg - rootGeneration
          /\ rootGeneration' = 0
          /\ burst' = [burst EXCEPT !.runs = @ + 1, !.gen = 0]
          /\ hashPending' = (hashPending \/ r.wrote)
          /\ prevFrom' = IF r.wrote THEN "write" ELSE prevFrom
          /\ last' = Op("setUrlHash", "-", NoError, r.wrote)
    /\ UNCHANGED <<rootValue, parseError, fetches, disposed, status>>

NextQuiet ==
    \/ TriggerChange
    \/ TriggerNavigate
    \/ QuietTimerFires
    \/ HashChange
    \/ \E result \in FetchResults : FetchSettles(result)

\* The scheduling of the browser: a pending timer expires, a queued event
\* is delivered, a fetch in flight settles.
TimerExpires == timers > 0 /\ timers' = timers - 1
EventDelivered == hashPending /\ hashPending' = FALSE
FetchEnds == fetches > 0 /\ fetches' = fetches - 1

SpecQuiet ==
    /\ Init
    /\ [][NextQuiet]_vars
    /\ WF_timers(TimerExpires)
    /\ WF_hashPending(EventDelivered)
    /\ WF_fetches(FetchEnds)

\* ---------------------------------------------------------------- claims
BangFragment(h) ==
    /\ ~checkRedirectFragment(h)[1]
    /\ StartsWith(FragmentOf(h), <<"#", "!">>)

\* C1: when an outbound cycle has written a fragment #!E and the hashchange
\* event for that address is delivered next, the inbound cycle takes the
\* identical-string return and leaves the tree alone.
C1_EchoSuppressed ==
    [][(/\ last.op = "setUrlHash" /\ last.wrote
        /\ BangFragment(href)
        /\ last'.op = "hashchange")
       => (/\ last'.path = "echo"
           /\ rootValue' = rootValue
           /\ rootGeneration' = rootGeneration)]_vars

\* C2: when an inbound cycle has applied a standard-form fragment (tree
\* reset, then restored to V) and the outbound cycle runs next, on the tree
\* that still holds V, it does not rewrite the fragment.
C2_NoWriteAfterApply ==
    [][(/\ IsInbound(last) /\ last.path = "standard" /\ last.thrown = NoError
        /\ last'.op = "setUrlHash")
       => ~last'.wrote]_vars

\* C3: the notifications of a burst, each arriving while the timer of the
\* one before is pending, leave one pending timer; one outbound cycle runs
\* for the burst, after its last notification, and reads the tree of the
\* last change.
C3_DebounceCollapses ==
    /\ timers <= 1
    /\ (~disposed /\ timers = 1) => (burst.n >= 1 /\ burst.runs = 0)
    /\ (~disposed /\ timers = 0 /\ burst.n >= 1) => burst.runs = 1
    /\ last.op = "setUrlHash" =>
           (prevStateGeneration = burst.gen /\ burst.gen = rootGeneration)

C3_Witness ==
    /\ last.op = "setUrlHash"
    /\ burst.n >= 2
    /\ burst.runs = 1
    /\ timers = 0

\* C4: once the binding is disposed no timer is pending and setUrlHash
\* never runs, whether a cycle was pending at dispose or the tree changes
\* later.
C4_DisposeCancels ==
    disposed => (timers = 0 /\ last.op # "setUrlHash")

C4_Witness ==
    /\ disposed
    /\ burst.n >= 1 /\ burst.runs = 0
    /\ last.op = "change"
    /\ rootGeneration > burst.gen

\* C5: after every inbound cycle parseError is what the cycle threw:
\* undefined when it threw nothing (the identical-string return included),
\* the failure otherwise.
C5_ErrorCell ==
    IsInbound(last) => parseError = last.thrown

\* C6: an inbound cycle that ends by setting parseError leaves the value
\* of the tree as it was.
C6_FailedCycleKeepsTree ==
    [][(IsInbound(last') /\ last'.thrown # NoError)
       => (rootValue' = rootValue /\ rootGeneration' = rootGeneration)]_vars

\* C7: an inbound cycle whose effective fragment does not start with #!
\* sets parseError to the malformed-fragment error and leaves the tree,
\* prevStateString and prevStateGeneration unchanged.
C7_MalformedShape ==
    [][(/\ IsInbound(last')
        /\ \E s \in {EffectiveFragment(href)} :
              s # <<>> /\ ~StartsWith(s, <<"#", "!">>))
       => (/\ parseError' = "Malformed"
           /\ rootValue' = rootValue
           /\ rootGeneration' = rootGeneration
           /\ prevStateString' = prevStateString
           /\ prevStateGeneration' = prevStateGeneration)]_vars

C7_Witness ==
    /\ IsInbound(last)
    /\ last.path = "malformed"
    /\ parseError = "Malformed"
    /\ rootValue # EmptyObject
    /\ prevStateString # Undefined

\* C8: prevStateString is undefined, or the string of the latest outbound
\* write, or the payload of a standard-form fragment that its inbound cycle
\* parsed and applied; never the payload of a cycle that failed.
C8_NeverSpeculative ==
    /\ prevFrom \in {"none", "write", "applied"}
    /\ prevFrom = "none" <=> prevStateString = Undefined

\* C9: at the end of every outbound cycle prevStateGeneration is the
\* generation of the tree read in that cycle.
C9_NoStaleGeneration ==
    IsOutbound(last) => prevStateGeneration = rootGeneration

\* the cycle that found the encoded string unchanged
C9_Witness ==
    /\ last.op = "setUrlHash"
    /\ ~last.wrote
    /\ prevStateGeneration = rootGeneration
    /\ prevStateString = encodeFragment(JSONStringify(rootValue))

\* C10: no cycle takes a fetch in flight away; a fetch that resolves to an
\* object resets the tree and restores it from that object; neither the
\* start of a fetch nor its end changes prevStateString or
\* prevStateGeneration.
C10_StaleFetch ==
    [][/\ fetches' < fetches => last'.op = "fetch"
       /\ (last'.op = "fetch" /\ last'.path = "object") =>
              rootValue' = RestoreState(Reset(rootValue), FetchedObject("object"))
       /\ (last'.op = "fetch" \/ (IsInbound(last') /\ last'.path = "remote")) =>
              (/\ prevStateString' = prevStateString
               /\ prevStateGeneration' = prevStateGeneration)]_vars

\* a fetch that ends after the address has moved on and the tree holds
\* another value
C10_Witness ==
    /\ last.op = "fetch" /\ last.path = "object"
    /\ rootValue = FetchedObject("object")
    /\ ~IsRemote(EffectiveFragment(href))
    /\ prevStateString # Undefined

\* C11: an inbound cycle on a remote-form fragment leaves the tree as it
\* was; a fetch that resolves to an object leaves the tree holding that object
\* and nothing else; a fetch that resolves to another JSON value leaves the
\* tree and parseError as they were and has the status message show the
\* error.
C11_RemoteOutcome ==
    [][/\ (IsInbound(last') /\ IsRemote(EffectiveFragment(href))) =>
              (/\ rootValue' = rootValue
               /\ rootGeneration' = rootGeneration
               /\ fetches' = fetches + 1)
       /\ (last'.op = "fetch" /\ last'.path = "object") =>
              rootValue' = FetchedObject("object")
       /\ (last'.op = "fetch" /\ last'.path = "value") =>
              (/\ rootValue' = rootValue
               /\ rootGeneration' = rootGeneration
               /\ parseError' = parseError
               /\ status' = "Error loading state:")]_vars

\* a fetch resolved to a value that is no object, on a tree that held a value
C11_Witness ==
    /\ last.op = "fetch" /\ last.path = "value"
    /\ status = "Error loading state:"
    /\ parseError = NoError
    /\ rootValue = A1

\* the query of an address: from the first ? to the fragment
QueryOf(h) ==
    LET w == WithoutFragment(h)
        i == FirstIndex(w, "?")
    IN IF i = 0 THEN <<>> ELSE Slice(w, i)

HasRedirect(h) == ParamsHas(URLSearchParams(QueryOf(h)), <<"redirect_fragment">>)
RedirectValue(h) == ParamsGet(URLSearchParams(QueryOf(h)), <<"redirect_fragment">>)

\* the value the tree holds after the steps of an outcome
TreeAfter(value, steps) == IF steps = <<>> THEN value ELSE steps[Len(steps)]

\* C12: an outbound cycle that rewrites the fragment for a tree that
\* serializes to {} leaves the fragment #; an inbound cycle on an address
\* without redirect_fragment whose fragment is '', # or #! ends as the cycle
\* on the fragment #!{} does.
C12_EmptyCanonical ==
    [][/\ (IsOutbound(last') /\ last'.wrote
           /\ JSONStringify(rootValue) = <<"{", "}">>) =>
              FragmentOf(href') = <<"#">>
       /\ (/\ IsInbound(last')
           /\ ~HasRedirect(href)
           /\ FragmentOf(href) \in {<<>>, <<"#">>, <<"#", "!">>}) =>
              \E r \in {updateFromUrlHash(ReplaceFragment(href, <<"#", "!", "{", "}">>),
                                          prevStateString, parseError, rootValue)} :
                 /\ last'.path = r.path
                 /\ prevStateString' = r.pss
                 /\ parseError' = r.error
                 /\ rootValue' = TreeAfter(rootValue, r.steps)]_vars

\* an inbound cycle read the fragment # that an outbound cycle had written
C12_Witness ==
    /\ IsInbound(last)
    /\ FragmentOf(href) = <<"#">>
    /\ last.path = "standard"
    /\ prevStateString = <<"{", "}">>
    /\ prevStateGeneration # NoGen

\* C13: an inbound cycle on an address whose query holds redirect_fragment
\* classifies # followed by the value of that parameter, whatever the
\* fragment of the address is; on another address it classifies the fragment,
\* or #!{} for the fragments '', # and #!.
C13_RedirectPrecedence ==
    IsInbound(last) =>
       EffectiveFragment(href) =
          IF HasRedirect(href) THEN <<"#">> \o RedirectValue(href)
          ELSE IF FragmentOf(href) \in {<<>>, <<"#">>, <<"#", "!">>}
          THEN <<"#", "!", "{", "}">>
          ELSE FragmentOf(href)

\* s decoded n times
RECURSIVE DecodeTimes(_, _)
DecodeTimes(s, n) ==
    IF n = 0 \/ s = URIError THEN s ELSE DecodeTimes(decodeURIComponent(s), n - 1)

CanonicalFragment(value) ==
    IF JSONStringify(value) = <<"{", "}">> THEN <<"#">>
    ELSE <<"#", "!">> \o encodeFragment(JSONStringify(value))

\* C15: an outbound cycle sets the fragment when the generation differs
\* from prevStateGeneration and the encoded string differs from
\* prevStateString, and leaves the fragment alone otherwise; with the
\* generation unchanged it changes neither cursor field; with the generation
\* changed and the string unchanged it changes prevStateGeneration alone.
C15_WriteCondition ==
    [][IsOutbound(last') =>
       \A stateString \in {encodeFragment(JSONStringify(rootValue))} :
          /\ (rootGeneration # prevStateGeneration /\ stateString # prevStateString) =>
                (/\ last'.wrote
                 /\ FragmentOf(href') = CanonicalFragment(rootValue)
                 /\ prevStateString' = stateString
                 /\ prevStateGeneration' = rootGeneration)
          /\ (rootGeneration = prevStateGeneration \/ stateString = prevStateString) =>
                (/\ ~last'.wrote
                 /\ FragmentOf(href') = FragmentOf(href))
          /\ rootGeneration = prevStateGeneration =>
                (/\ prevStateString' = prevStateString
                 /\ prevStateGeneration' = prevStateGeneration)
          /\ (rootGeneration # prevStateGeneration /\ stateString = prevStateString) =>
                (/\ prevStateString' = prevStateString
                 /\ prevStateGeneration' = rootGeneration)]_vars

\* a cycle called on an unchanged generation, while the encoded string
\* differs from prevStateString
C15_Witness ==
    /\ last.op = "callSetUrlHash"
    /\ ~last.wrote
    /\ prevStateGeneration = rootGeneration
    /\ prevStateString \notin {Undefined, encodeFragment(JSONStringify(rootValue))}

\* C16: a successful inbound cycle on a legacy fragment restores the tree
\* from the parsed object without a reset and leaves prevStateString
\* undefined, a failed one leaves prevStateString as it was; the outbound
\* cycle that comes next after a successful one rewrites the fragment.
C16_LegacyForcesRewrite ==
    [][/\ (/\ IsInbound(last')
           /\ StartsWith(EffectiveFragment(href), <<"#", "!", "+">>)) =>
              LET state == urlSafeParse(DecodePayload(Slice(EffectiveFragment(href), 3),
                                                      checkRedirectFragment(href)[1]))
              IN IF last'.thrown = NoError
                 THEN /\ prevStateString' = Undefined
                      /\ rootValue' = RestoreState(rootValue, state.obj)
                 ELSE /\ prevStateString' = prevStateString
                      /\ rootValue' = rootValue
       /\ (/\ IsInbound(last) /\ last.path = "legacy" /\ last.thrown = NoError
           /\ IsOutbound(last')) =>
              (/\ last'.wrote
               /\ FragmentOf(href') = CanonicalFragment(rootValue))]_vars

\* the parameters of the query of an address other than parameter
OtherParams(h, parameter) ==
    SelectSeq(URLSearchParams(QueryOf(h)), LAMBDA p : p[1] # parameter)

RECURSIVE JoinParts(_)
JoinParts(parts) ==
    IF parts = <<>> THEN <<>>
    ELSE IF Len(parts) = 1 THEN parts[1]
    ELSE parts[1] \o <<"&">> \o JoinParts(Tail(parts))

\* the address h with every json_url parameter taken out of its query
WithoutJsonUrl(h) ==
    LET w == WithoutFragment(h)
        i == FirstIndex(w, "?")
        kept == SelectSeq(Split(QueryOf(h), "&"),
                          LAMBDA p : p # <<>> /\ ~StartsWith(p, <<"json_url", "=">>))
    IN (IF i = 0 THEN w ELSE SubSeq(w, 1, i - 1))
       \o (IF kept = <<>> THEN <<>> ELSE <<"?">> \o JoinParts(kept))
       \o FragmentOf(h)

\* C17: after every outbound cycle the query holds no json_url parameter
\* and the same other parameters as before; a cycle that does not rewrite
\* the fragment leaves the fragment as it was; an inbound cycle ends as it
\* would on the address without json_url.
C17_JsonUrlRemoved ==
    [][/\ IsOutbound(last') =>
              (/\ ~ParamsHas(URLSearchParams(QueryOf(href')), <<"json_url">>)
               /\ OtherParams(href', <<"json_url">>) = OtherParams(href, <<"json_url">>)
               /\ ~last'.wrote => FragmentOf(href') = FragmentOf(href))
       /\ IsInbound(last') =>
              \E r \in {updateFromUrlHash(WithoutJsonUrl(href), prevStateString,
                                          parseError, rootValue)} :
                 /\ last'.path = r.path
                 /\ prevStateString' = r.pss
                 /\ parseError' = r.error
                 /\ rootValue' = TreeAfter(rootValue, r.steps)]_vars

\* C18: after one trigger and without further input the cycles come to an
\* end: from some point on no timer is pending, no hashchange event is
\* queued and no fetch is in flight, also when every rewrite of the fragment
\* is followed by a hashchange event.
C18_Quiescence ==
    <>[](timers = 0 /\ ~hashPending /\ fetches = 0)

\* C19: after every outbound cycle the fragment is the encoding of the
\* value the tree holds: # (or none) when it serializes to {}, #! followed
\* by the encoded JSON otherwise.
C19_UrlReflectsState ==
    IsOutbound(last) =>
       \/ FragmentOf(href) = CanonicalFragment(rootValue)
       \/ (FragmentOf(href) = <<>> /\ JSONStringify(rootValue) = <<"{", "}">>)

\* C20: once the binding is disposed the address stays as it is and the
\* tree changes only when the application changes it: no inbound cycle and
\* no outbound cycle runs, and a fetch that settles leaves the tree alone.
C20_RemovedOnDispose ==
    [][disposed =>
          (/\ href' = href
           /\ ~IsInbound(last') /\ ~IsOutbound(last')
           /\ last'.op # "change" =>
                  (rootValue' = rootValue /\ rootGeneration' = rootGeneration))]_vars

====
